---- MODULE Spec2Model ----
(***************************************************************************)
(* A model of the Timesketch MCP tool server:                              *)
(*   src/src/timesketch_mcp_server/tools.py  (tools, retry, search)        *)
(*   src/src/timesketch_mcp_server/utils.py  (memoized client accessor)    *)
(*                                                                         *)
(* Strings that the code inspects character by character (substrings,      *)
(* query strings) are sequences of one-character strings.  The remote      *)
(* Timesketch service is a black box: what it answers on each attempt is   *)
(* fixed by the variable `remote`, chosen in the initial state.            *)
(***************************************************************************)
EXTENDS Integers, Sequences, FiniteSets, TLC

\* ------------------------------------------------------------------ bounds
MaxLen == 3          \* longest input substring
MaxSubstrings == 3   \* longest substrings list
MaxRows == 2         \* most rows of a raw result table
MaxEvents == 2       \* most events the search of discover_fields_for_datatype gives
MaxBuckets == 2      \* most buckets an aggregation answers in the model
MaxCalls == 4        \* most get_timesketch_client calls in the client runs

\* ------------------------------------------------------- program constants
tries == 3                    \* @retry(tries=3, ...)
delay == 10                   \* @retry(..., delay=10, ...)
error_types == {"ValueError"} \* @retry(..., error_types=(ValueError,))
MaxOccurrences == 10          \* if max_occurrences < 10
DefaultPort == "5000"         \* os.environ.get('TIMESKETCH_PORT', '5000')

\* RESERVED_CHARS, in the order of the list in the source.
RESERVED_CHARS ==
    << <<"+">>, <<"-">>, <<"=">>, <<"&", "&">>, <<"|", "|">>, <<">">>, <<"<">>,
       <<"!">>, <<"(">>, <<")">>, <<"{">>, <<"}">>, <<"[">>, <<"]">>, <<"^">>,
       <<"\"">>, <<"~">>, <<"*">>, <<"?">>, <<":">>, <<"\\">>, <<"/">> >>

\* ------------------------------------------------------------ str helpers
\* s[i..] starts with old
StartsWith(s, old) ==
    /\ Len(s) >= Len(old)
    /\ SubSeq(s, 1, Len(old)) = old

\* Python's str.replace(old, new) for a non-empty old: left to right,
\* non-overlapping occurrences.
RECURSIVE StrReplace(_, _, _)
StrReplace(s, old, new) ==
    IF Len(s) < Len(old) THEN s
    ELSE IF StartsWith(s, old)
         THEN new \o StrReplace(SubSeq(s, Len(old) + 1, Len(s)), old, new)
         ELSE <<Head(s)>> \o StrReplace(Tail(s), old, new)

\* Python's sep.join(items)
RECURSIVE StrJoin(_, _)
StrJoin(sep, items) ==
    IF items = <<>> THEN <<>>
    ELSE IF Len(items) = 1 THEN items[1]
    ELSE items[1] \o sep \o StrJoin(sep, Tail(items))

\* for char in RESERVED_CHARS: substring = substring.replace(char, f"\\{char}")
\* (the passes from the n-th reserved entry down to the first have been applied)
RECURSIVE EscapePasses(_, _)
EscapePasses(substring, n) ==
    IF n = 0 THEN substring
    ELSE StrReplace(EscapePasses(substring, n - 1),
                    RESERVED_CHARS[n],
                    <<"\\">> \o RESERVED_CHARS[n])

EscapeReserved(substring) == EscapePasses(substring, Len(RESERVED_CHARS))


\* ------------------------------------------------------------------ state
VARIABLES
    tool,              \* which tool was invoked
    sketch_id,         \* argument sketch_id
    substrings,        \* argument substrings (search_timesketch_events_substrings)
    regex,             \* argument regex
    boolean_operator,  \* argument boolean_operator, as given by the caller
    data_type,         \* argument data_type (discover_fields_for_datatype)
    environ,           \* os.environ: TIMESKETCH_HOST, TIMESKETCH_PORT
    remote,            \* what the remote service answers: per attempt, and the table
    pc,                \* position of the invocation
    idx,               \* loop position in `for substring in substrings`
    terms,             \* local terms
    query,             \* the query string handed to do_timesketch_search
    attempts,          \* how often the body of do_timesketch_search has run
    sleeps,            \* the time.sleep() calls made by retry, in order
    failures,          \* the exception of every failed attempt, in order
    execResult,        \* what the retry wrapper gave back to the tool
    cache,             \* functools.cache of get_timesketch_client
    constructions,     \* how often the body of get_timesketch_client has run
    clientRequests,    \* how many calls of get_timesketch_client were made
    toolResult,        \* what the tool gave back to its caller
    evIdx,             \* discover: position in `for event in events`
    keyIdx,            \* discover: position in `for field in event.keys()`
    fields,            \* discover: the dict fields, in insertion order
    aggLog,            \* discover: the top-10 counts each aggregation answered
    tpc,               \* client runs: position of each caller
    tseen,             \* client runs: what each caller found in the cache
    callLog            \* client runs: the finished calls, in order

toolVars == <<tool, sketch_id, substrings, regex, boolean_operator, data_type,
              environ, remote>>
buildVars == <<idx, terms, query>>
retryVars == <<attempts, sleeps, failures, execResult>>
clientVars == <<cache, constructions, clientRequests>>
discoverVars == <<evIdx, keyIdx, fields, aggLog>>
threadVars == <<tpc, tseen, callLog>>
vars == <<toolVars, pc, buildVars, retryVars, clientVars, toolResult,
          discoverVars, threadVars>>

\* ------------------------------------------------------------- exceptions
NoError == [stage |-> "none", type |-> "none", msg |-> ""]

\* raise ValueError("Substrings list cannot be empty.")
EmptySubstringsError ==
    [stage |-> "input", type |-> "ValueError",
     msg |-> "Substrings list cannot be empty."]

\* raise ValueError(f"Invalid boolean operator: {boolean_operator}. ...")
InvalidOperatorError(op) ==
    [stage |-> "input", type |-> "ValueError",
     msg |-> "Invalid boolean operator: " \o op
             \o ". Must be one of 'AND' or 'OR'."]

\* raise ValueError(f"Sketch with ID {sketch_id} not found.")
NotFoundError(id) ==
    [stage |-> "notfound", type |-> "ValueError",
     msg |-> "Sketch with ID " \o ToString(id) \o " not found."]

\* An exception raised by the client library; it reaches the retry wrapper
\* as it is (the body of do_timesketch_search has no try/except).
LibraryError(stage, type) ==
    [stage |-> stage, type |-> type, msg |-> stage \o " failed"]

\* ------------------------------------------------------------ result table
\* A cell is [k, v]: a missing value (None/NaN), a datetime object or a string.
Null == [k |-> "null", v |-> ""]
Str(v) == [k |-> "str", v |-> v]
Datetime(v) == [k |-> "datetime", v |-> v]
NA == Str("N/A")

IsNull(cell) == cell.k = "null"

\* x.isoformat(): the datetime object becomes a string
IsoFormat(x) == Str(x.v \o "T00:00:00")

EmptyTable == [columns |-> <<"datetime", "message">>, rows |-> <<>>]

HasColumn(df, c) == \E i \in 1..Len(df.columns) : df.columns[i] = c

\* df[c] = df[c].fillna("N/A")
FillnaColumn(df, c) ==
    [df EXCEPT !.rows =
        [i \in 1..Len(df.rows) |->
            [df.rows[i] EXCEPT ![c] = IF IsNull(@) THEN NA ELSE @]]]

\* a slip: the blanket fill left out
FillnaMissing(df) == df

\* df = df.fillna("N/A")
Fillna(df) ==
    [df EXCEPT !.rows =
        [i \in 1..Len(df.rows) |->
            [c \in DOMAIN df.rows[i] |->
                IF IsNull(df.rows[i][c]) THEN NA ELSE df.rows[i][c]]]]

\* df["datetime"] = df["datetime"].apply(lambda x: x.isoformat())
ApplyIsoFormat(df) ==
    [df EXCEPT !.rows =
        [i \in 1..Len(df.rows) |->
            [df.rows[i] EXCEPT !["datetime"] = IsoFormat(@)]]]

\* The tail of do_timesketch_search, from `if result_df.empty` on.
NormalizeTable(result_df) ==
    IF result_df.rows = <<>> THEN result_df
    ELSE LET df1 == IF HasColumn(result_df, "yara_match")
                    THEN FillnaColumn(result_df, "yara_match") ELSE result_df
             df2 == IF HasColumn(df1, "sha256_hash")
                    THEN FillnaColumn(df1, "sha256_hash") ELSE df1
             df3 == ApplyIsoFormat(df2)
         IN  Fillna(df3)

\* df.to_dict(orient="records")
ToRecords(df) == df.rows


\* ------------------------------------------------------ get_timesketch_client
NoHandle == [id |-> 0, host_uri |-> ""]

\* os.environ.get(name, default)
EnvironGet(env, name, default) ==
    IF env[name] = "" THEN default ELSE env[name]

\* f"http://{os.environ.get('TIMESKETCH_HOST')}:{os.environ.get('TIMESKETCH_PORT', '5000')}/"
HostUri(env) ==
    "http://" \o EnvironGet(env, "TIMESKETCH_HOST", "None") \o ":"
              \o EnvironGet(env, "TIMESKETCH_PORT", DefaultPort) \o "/"

\* TimesketchApi(host_uri=host_uri, ...): the n-th object constructed
TimesketchApi(n, env) == [id |-> n, host_uri |-> HostUri(env)]

\* a slip: the decorator left out, every call constructs
CacheNeverHits(c) == FALSE

\* functools.cache: is there an entry for the (empty) argument tuple?
CacheHit(c) == c # NoHandle

\* a slip: the result of the body is never stored
CacheStoresNothing(c, built, ok) == c

\* functools.cache: what is stored after the wrapped function has ended
CacheStore(c, built, ok) == IF ok THEN built ELSE c

\* ------------------------------------------------------------------- retry
\* if error_types and not isinstance(e, tuple(error_types)): raise e
Retryable(e) == error_types = {} \/ e.type \in error_types

\* What one run of the body of do_timesketch_search does, given what the
\* remote answers on this attempt: the exception raised, or NoError.
\*   "client"   constructing the client handle fails
\*   "notfound" get_sketch() gives a falsy sketch
\*   "query"    configuring or running the search raises
\*   "ok"       search_instance.table gives remote.table
AttemptError(o, id) ==
    CASE o.stage = "notfound" -> NotFoundError(id)
      [] o.stage = "ok" -> NoError
      [] OTHER -> LibraryError(o.stage, o.type)

\* One iteration of `for i in range(tries)` in retry.wrapper, up to and
\* without the time.sleep(): the body of do_timesketch_search runs once.
Attempt ==
    /\ pc = "search"
    /\ attempts < tries
    /\ LET o == remote.outcomes[attempts + 1]
           i == attempts
           hit == CacheHit(cache)
           e == AttemptError(o, sketch_id)
       IN  /\ attempts' = attempts + 1
           /\ clientRequests' = clientRequests + 1
           /\ constructions' = IF hit THEN constructions ELSE constructions + 1
           /\ cache' = IF hit THEN cache
                       ELSE CacheStore(cache,
                                       TimesketchApi(constructions + 1, environ),
                                       o.stage # "client")
           /\ IF e = NoError
              THEN /\ execResult' = [status |-> "returned", error |-> NoError,
                                     table |-> NormalizeTable(remote.table)]
                   /\ pc' = "after"
                   /\ UNCHANGED failures
              ELSE /\ failures' = Append(failures, e)
                   /\ IF Retryable(e) /\ i < tries - 1
                      THEN /\ pc' = "sleep"
                           /\ UNCHANGED execResult
                      ELSE /\ pc' = "after"
                           /\ execResult' = [status |-> "raised", error |-> e,
                                             table |-> EmptyTable]
    /\ UNCHANGED <<toolVars, buildVars, sleeps, toolResult, discoverVars, threadVars>>

\* time.sleep(delay), then the next iteration
Sleep ==
    /\ pc = "sleep"
    /\ sleeps' = Append(sleeps, delay)
    /\ pc' = "search"
    /\ UNCHANGED <<toolVars, buildVars, attempts, failures, execResult,
                   clientVars, toolResult, discoverVars, threadVars>>

\* ------------------------------------- search_timesketch_events_substrings
NoResult == [status |-> "none", error |-> NoError, value |-> <<>>]

\* a slip: the operator check left out
InputErrorEmptyOnly(subs, op) ==
    IF subs = <<>> THEN EmptySubstringsError ELSE NoError

\* the two input checks at the head of the tool
InputError(subs, op) ==
    IF subs = <<>> THEN EmptySubstringsError
    ELSE IF op \notin {"AND", "OR"} THEN InvalidOperatorError(op)
    ELSE NoError

Validate ==
    /\ pc = "validate"
    /\ LET e == InputError(substrings, boolean_operator)
       IN  IF e # NoError
           THEN /\ toolResult' = [status |-> "raised", error |-> e, value |-> <<>>]
                /\ pc' = "done"
           ELSE /\ pc' = "build"
                /\ UNCHANGED toolResult
    /\ UNCHANGED <<toolVars, buildVars, retryVars, clientVars, discoverVars, threadVars>>

\* boolean_operator = f" {boolean_operator} "
PadOperator(op) == <<" ">> \o op \o <<" ">>

\* the term appended for one non-empty substring
Term(substring, isRegex) ==
    IF isRegex
    THEN <<"/", ".", "*">> \o substring \o <<".", "*", "/">>
    ELSE <<"*">> \o EscapeReserved(substring) \o <<"*">>

\* a slip: empty substrings not skipped
SkippedNever(substring) == FALSE

\* `if not substring: continue`
Skipped(substring) == substring = <<>>

\* one iteration of `for substring in substrings`
BuildTerm ==
    /\ pc = "build"
    /\ idx <= Len(substrings)
    /\ terms' = IF Skipped(substrings[idx]) THEN terms
                ELSE Append(terms, Term(substrings[idx], regex))
    /\ idx' = idx + 1
    /\ UNCHANGED <<toolVars, pc, query, retryVars, clientVars, toolResult,
                   discoverVars, threadVars>>

OperatorChars(op) ==
    CASE op = "AND" -> <<"A", "N", "D">>
      [] op = "OR" -> <<"O", "R">>
      [] OTHER -> <<"?">>

\* query = boolean_operator.join(terms)
JoinQuery ==
    /\ pc = "build"
    /\ idx > Len(substrings)
    /\ query' = StrJoin(PadOperator(OperatorChars(boolean_operator)), terms)
    /\ pc' = "search"
    /\ UNCHANGED <<toolVars, idx, terms, retryVars, clientVars, toolResult,
                   discoverVars, threadVars>>

\* except Exception as e: return [{"result": f"Error: {str(e)}"}]
ErrorPayload(e) == << [result |-> "Error: " \o e.msg] >>

\* a slip: no try/except, the error of the search is raised to the caller
ToolOutcomeRaises(r) ==
    IF r.status = "returned"
    THEN [status |-> "returned", error |-> NoError, value |-> ToRecords(r.table)]
    ELSE [status |-> "raised", error |-> r.error, value |-> <<>>]

\* The end of search_timesketch_events_substrings and of
\* search_timesketch_events_advanced: the try/except around the search.
ToolOutcome(r) ==
    IF r.status = "returned"
    THEN [status |-> "returned", error |-> NoError, value |-> ToRecords(r.table)]
    ELSE [status |-> "returned", error |-> NoError, value |-> ErrorPayload(r.error)]

ToolReturn ==
    /\ pc = "after"
    /\ tool \in {"substrings", "advanced"}
    /\ toolResult' = ToolOutcome(execResult)
    /\ pc' = "done"
    /\ UNCHANGED <<toolVars, buildVars, retryVars, clientVars, discoverVars, threadVars>>


\* ------------------------------------------------------------ input sets
Alphabet == {"a", "+", "\\", "&"}

SeqsUpTo(S, n) == UNION {[1..k -> S] : k \in 0..n}

\* substrings lists: every list of one string of up to MaxLen characters, and
\* every list of up to MaxSubstrings strings taken from a few samples
SampleStrings == {<<>>, <<"a">>, <<"b">>, <<"+", "a">>}
SubstringLists ==
    {<<s>> : s \in SeqsUpTo(Alphabet, MaxLen)}
        \cup SeqsUpTo(SampleStrings, MaxSubstrings)
FewSubstringLists == {<<>>, << <<"a">> >>, << <<>>, <<"+">> >>}

Operators == {"AND", "OR", "XOR"}

\* an advanced query, as the caller wrote it
AdvancedQuery == <<"t", "a", "g", ":", "x">>

ExceptionTypes == {"ValueError", "RuntimeError", "KeyError"}
Outcomes ==
    {[stage |-> "ok", type |-> "none"], [stage |-> "notfound", type |-> "ValueError"]}
        \cup [stage : {"client", "query"}, type : ExceptionTypes]

\* The handle can only fail to be constructed while none is cached: once an
\* attempt got past get_timesketch_client(), the later ones find the handle.
WellFormed(os) ==
    \A i \in 1..Len(os) : os[i].stage = "client" =>
        \A j \in 1..(i - 1) : os[j].stage = "client"

Scenarios == {os \in [1..tries -> Outcomes] : WellFormed(os)}

Always(stage, type) == [i \in 1..tries |-> [stage |-> stage, type |-> type]]
FewScenarios ==
    {Always("ok", "none"), Always("notfound", "ValueError"),
     Always("query", "KeyError"),
     [Always("ok", "none") EXCEPT ![1] = [stage |-> "notfound", type |-> "ValueError"]]}

\* the runs used where the inputs are what varies
QueryScenarios ==
    {Always("ok", "none"), Always("notfound", "ValueError"), Always("query", "KeyError")}

ColumnLists ==
    {<<"datetime", "message">>,
     <<"datetime", "message", "yara_match">>,
     <<"datetime", "message", "sha256_hash">>,
     <<"datetime", "message", "yara_match", "sha256_hash">>}

Range(f) == {f[i] : i \in DOMAIN f}

\* datetime is a required field of every event: its cells hold datetime
\* objects; every other cell holds a string or is missing
RawCells == {Null, Str("x"), Datetime("2025-04-01"), Datetime("2025-04-02")}
RowsOf(columns) ==
    {r \in [Range(columns) -> RawCells] :
        \A c \in Range(columns) : (c = "datetime") <=> (r[c].k = "datetime")}

TablesOf(columns, n) ==
    {[columns |-> columns, rows |-> rs] : rs \in SeqsUpTo(RowsOf(columns), n)}
Tables == UNION {TablesOf(cs, MaxRows) : cs \in ColumnLists}

OneRow ==
    [columns |-> <<"datetime", "message", "yara_match">>,
     rows |-> << [datetime |-> Datetime("2025-04-01"), message |-> Null,
                  yara_match |-> Null] >>]
FewTables == {EmptyTable, OneRow}

Environment == [TIMESKETCH_HOST |-> "ts.example", TIMESKETCH_PORT |-> ""]

Threads == 1..2

\* ------------------------------------------------------------- initial states
InitIdle ==
    /\ idx = 1
    /\ terms = <<>>
    /\ attempts = 0
    /\ sleeps = <<>>
    /\ failures = <<>>
    /\ execResult = [status |-> "none", error |-> NoError, table |-> EmptyTable]
    /\ cache = NoHandle
    /\ constructions = 0
    /\ clientRequests = 0
    /\ toolResult = NoResult
    /\ evIdx = 1
    /\ keyIdx = 1
    /\ fields = <<>>
    /\ aggLog = <<>>
    /\ tpc = [t \in Threads |-> "idle"]
    /\ tseen = [t \in Threads |-> NoHandle]
    /\ callLog = <<>>

\* A tool invocation: search_timesketch_events_substrings with its arguments
\* from Lists, or search_timesketch_events_advanced with AdvancedQuery.
InitTool(Lists, Ops, Runs, RawTables) ==
    /\ InitIdle
    /\ sketch_id = 7
    /\ data_type = <<>>
    /\ environ = Environment
    /\ \E os \in Runs, t \in RawTables :
          /\ ((\A i \in 1..tries : os[i].stage # "ok") => t = EmptyTable)
          /\ remote = [outcomes |-> os, table |-> t]
    /\ \/ /\ tool = "substrings"
          /\ substrings \in Lists
          /\ regex \in BOOLEAN
          /\ boolean_operator \in Ops
          /\ query = <<>>
          /\ pc = "validate"
       \/ /\ tool = "advanced"
          /\ substrings = <<>>
          /\ regex = FALSE
          /\ boolean_operator = "AND"
          /\ query = AdvancedQuery
          /\ pc = "search"

Init == InitTool(FewSubstringLists, Operators, Scenarios, FewTables)
InitQuery == InitTool(SubstringLists, Operators, QueryScenarios, FewTables)
InitNormalize == InitTool({<< <<"a">> >>}, {"AND"}, FewScenarios, Tables)

Next ==
    \/ Validate
    \/ BuildTerm
    \/ JoinQuery
    \/ Attempt
    \/ Sleep
    \/ ToolReturn

\* every run of the remote service, a few inputs
Spec == Init /\ [][Next]_vars
\* every substrings list, a few runs of the remote service
SpecQuery == InitQuery /\ [][Next]_vars
\* every raw result table, a few runs of the remote service
SpecNormalize == InitNormalize /\ [][Next]_vars


\* ------------------------------------------ discover_fields_for_datatype
\* f'data_type:"{data_type}"'
DataTypeQuery(dt) ==
    <<"d", "a", "t", "a", "_", "t", "y", "p", "e", ":", "\"">> \o dt \o <<"\"">>

\* The buckets an aggregation answers: a bucket is {<field>: value, "count": n}
Bucket(i, n) == [value |-> "value" \o ToString(i), count |-> n]

\* max([...], default=0)
RECURSIVE MaxOf(_, _)
MaxOf(ns, default) ==
    IF ns = <<>> THEN default
    ELSE LET m == MaxOf(Tail(ns), Head(ns))
         IN  IF Head(ns) >= m THEN Head(ns) ELSE m

\* a slip: the comparison off by one
ProbablyUniqueOffByOne(max_occurrences) == max_occurrences <= MaxOccurrences

\* if max_occurrences < 10: fields[field] = None
ProbablyUnique(max_occurrences) == max_occurrences < MaxOccurrences

None == [none |-> TRUE, examples |-> <<>>]
Examples(top_values) ==
    [none |-> FALSE,
     examples |-> [i \in 1..Len(top_values) |-> top_values[i].value]]

\* `field in fields`
InFields(fs, field) == \E i \in 1..Len(fs) : fs[i].field = field

\* return [field for field in fields.keys() if fields[field] is not None]
ReturnedFields(fs) ==
    LET kept == SelectSeq(fs, LAMBDA x : ~x.value.none)
    IN  [i \in 1..Len(kept) |-> kept[i].field]

\* events = do_timesketch_search(...).to_dict(orient="records"), then
\* fields = defaultdict(dict) and sketch = get_timesketch_client().get_sketch(..)
\* An error of the search is not caught here: it is raised to the caller.
DiscoverSetup ==
    /\ pc = "after"
    /\ tool = "discover"
    /\ IF execResult.status = "raised"
       THEN /\ toolResult' = [status |-> "raised", error |-> execResult.error,
                              value |-> <<>>]
            /\ pc' = "done"
            /\ UNCHANGED <<clientVars, discoverVars>>
       ELSE /\ clientRequests' = clientRequests + 1
            /\ constructions' = IF CacheHit(cache) THEN constructions
                                ELSE constructions + 1
            /\ cache' = IF CacheHit(cache) THEN cache
                        ELSE CacheStore(cache,
                                        TimesketchApi(constructions + 1, environ),
                                        TRUE)
            /\ fields' = <<>>
            /\ evIdx' = 1
            /\ keyIdx' = 1
            /\ pc' = "fields"
            /\ UNCHANGED <<toolResult, aggLog>>
    /\ UNCHANGED <<toolVars, buildVars, retryVars, threadVars>>

Events == ToRecords(execResult.table)
Keys == execResult.table.columns

\* the next position of the two nested loops
Advance ==
    IF keyIdx < Len(Keys)
    THEN /\ keyIdx' = keyIdx + 1
         /\ UNCHANGED evIdx
    ELSE /\ keyIdx' = 1
         /\ evIdx' = evIdx + 1

\* one iteration of `for field in event.keys()`
DiscoverField ==
    /\ pc = "fields"
    /\ evIdx <= Len(Events)
    /\ LET field == Keys[keyIdx]
       IN  IF InFields(fields, field)
           THEN UNCHANGED <<fields, aggLog>>
           ELSE \E counts \in SeqsUpTo({MaxOccurrences - 1, MaxOccurrences,
                                        MaxOccurrences + 1}, MaxBuckets) :
                  \* the top values come in descending order of count
                  /\ \A i \in 1..(Len(counts) - 1) : counts[i] >= counts[i + 1]
                  /\ LET top_values == [i \in 1..Len(counts) |-> Bucket(i, counts[i])]
                         max_occurrences ==
                             MaxOf([i \in 1..Len(top_values) |-> top_values[i].count], 0)
                     IN  /\ aggLog' = Append(aggLog, [field |-> field, counts |-> counts])
                         /\ fields' = Append(fields,
                               [field |-> field,
                                value |-> IF ProbablyUnique(max_occurrences)
                                          THEN None ELSE Examples(top_values)])
    /\ Advance
    /\ UNCHANGED <<toolVars, pc, buildVars, retryVars, clientVars, toolResult, threadVars>>

\* _run_field_bucket_aggregation raises (the remote fails, or the response
\* lacks objects[0]["field_bucket"]["buckets"]): nothing catches it
DiscoverAggregationFails ==
    /\ pc = "fields"
    /\ evIdx <= Len(Events)
    /\ ~InFields(fields, Keys[keyIdx])
    /\ toolResult' = [status |-> "raised",
                      error |-> LibraryError("aggregation", "KeyError"),
                      value |-> <<>>]
    /\ pc' = "done"
    /\ UNCHANGED <<toolVars, buildVars, retryVars, clientVars, discoverVars, threadVars>>

DiscoverReturn ==
    /\ pc = "fields"
    /\ evIdx > Len(Events)
    /\ toolResult' = [status |-> "returned", error |-> NoError,
                      value |-> ReturnedFields(fields)]
    /\ pc' = "done"
    /\ UNCHANGED <<toolVars, buildVars, retryVars, clientVars, discoverVars, threadVars>>

\* the events of one data type: the same columns in every event
EventRow(columns) ==
    [c \in Range(columns) |-> IF c = "datetime" THEN Datetime("2025-04-01") ELSE Str("x")]
EventTables ==
    {[columns |-> cs, rows |-> [i \in 1..n |-> EventRow(cs)]] :
        cs \in {<<"datetime", "message">>, <<"datetime", "message", "yara_match">>},
        n \in 0..MaxEvents}

InitDiscover ==
    /\ InitIdle
    /\ tool = "discover"
    /\ sketch_id = 7
    /\ substrings = <<>>
    /\ regex = FALSE
    /\ boolean_operator = "AND"
    /\ data_type = <<"s", "y", "s">>
    /\ query = DataTypeQuery(data_type)
    /\ environ = Environment
    /\ \E os \in FewScenarios, t \in EventTables :
          /\ ((\A i \in 1..tries : os[i].stage # "ok") => t = EmptyTable)
          /\ remote = [outcomes |-> os, table |-> t]
    /\ pc = "search"

NextDiscover ==
    \/ Attempt
    \/ Sleep
    \/ DiscoverSetup
    \/ DiscoverField
    \/ DiscoverAggregationFails
    \/ DiscoverReturn

SpecDiscover == InitDiscover /\ [][NextDiscover]_vars

\* ------------------------------------- callers of get_timesketch_client
\* The start of a call: functools.cache looks the key up; on a hit the call
\* ends with the cached handle, on a miss the caller goes on to run the body.
Lookup(t) ==
    /\ tpc[t] = "idle"
    /\ clientRequests < MaxCalls
    /\ clientRequests' = clientRequests + 1
    /\ tseen' = [tseen EXCEPT ![t] = cache]
    /\ IF CacheHit(cache)
       THEN /\ callLog' = Append(callLog,
                  [thread |-> t, seen |-> cache, hit |-> TRUE, raised |-> FALSE,
                   handle |-> cache])
            /\ UNCHANGED tpc
       ELSE /\ tpc' = [tpc EXCEPT ![t] = "constructing"]
            /\ UNCHANGED callLog
    /\ UNCHANGED <<toolVars, pc, buildVars, retryVars, cache, constructions,
                   toolResult, discoverVars>>

\* a call that starts while no other call is running
SeqLookup(t) ==
    /\ \A u \in Threads : tpc[u] = "idle"
    /\ Lookup(t)

\* The body ran to its end: the handle is stored and returned.
ConstructOk(t) ==
    /\ tpc[t] = "constructing"
    /\ LET ts_client == TimesketchApi(constructions + 1, environ)
       IN  /\ constructions' = constructions + 1
           /\ cache' = CacheStore(cache, ts_client, TRUE)
           /\ callLog' = Append(callLog,
                 [thread |-> t, seen |-> tseen[t], hit |-> FALSE, raised |-> FALSE,
                  handle |-> ts_client])
    /\ tpc' = [tpc EXCEPT ![t] = "idle"]
    /\ UNCHANGED <<toolVars, pc, buildVars, retryVars, clientRequests, toolResult,
                   discoverVars, tseen>>

\* TimesketchApi(...) raised: the exception leaves the call, nothing is stored.
ConstructFails(t) ==
    /\ tpc[t] = "constructing"
    /\ constructions' = constructions + 1
    /\ cache' = CacheStore(cache, TimesketchApi(constructions + 1, environ), FALSE)
    /\ callLog' = Append(callLog,
          [thread |-> t, seen |-> tseen[t], hit |-> FALSE, raised |-> TRUE,
           handle |-> NoHandle])
    /\ tpc' = [tpc EXCEPT ![t] = "idle"]
    /\ UNCHANGED <<toolVars, pc, buildVars, retryVars, clientRequests, toolResult,
                   discoverVars, tseen>>

Environments ==
    [TIMESKETCH_HOST : {"", "ts.example"}, TIMESKETCH_PORT : {"", "8080"}]

InitClient ==
    /\ InitIdle
    /\ tool = "none"
    /\ sketch_id = 7
    /\ substrings = <<>>
    /\ regex = FALSE
    /\ boolean_operator = "AND"
    /\ data_type = <<>>
    /\ query = <<>>
    /\ environ \in Environments
    /\ remote = [outcomes |-> Always("ok", "none"), table |-> EmptyTable]
    /\ pc = "done"

\* calls one after the other
NextSequential == \E t \in Threads : SeqLookup(t) \/ ConstructOk(t) \/ ConstructFails(t)
\* calls of tool invocations that run at the same time
NextConcurrent == \E t \in Threads : Lookup(t) \/ ConstructOk(t) \/ ConstructFails(t)

SpecClientSequential == InitClient /\ [][NextSequential]_vars
SpecClientConcurrent == InitClient /\ [][NextConcurrent]_vars

\* ================================================================== claims
AllNotFound ==
    \A i \in 1..Len(failures) : failures[i].stage = "notfound"

\* C1: do_timesketch_search under retry(tries=3, delay=10).  When every
\* attempt failed with the not-found error, the search ran 3 times with a
\* sleep of 10 between consecutive attempts (2 sleeps) and the last not-found
\* error was raised; when the first attempt failed with a search failure (the
\* sketch resolved, the query raised), there was 1 attempt, no sleep, and that
\* error was raised at once.
C1_RetryPolicy ==
    /\ (execResult.status = "raised" /\ AllNotFound) =>
          /\ attempts = 3
          /\ sleeps = <<10, 10>>
          /\ execResult.error = failures[3]
    /\ (failures # <<>> /\ failures[1].stage = "query") =>
          /\ attempts = 1
          /\ sleeps = <<>>
          /\ execResult.status = "raised"
          /\ execResult.error = failures[1]

\* C8: a failure raised while configuring or running the query, after the
\* sketch resolved, ends the search at that attempt without a sleep, whatever
\* its exception type, and is raised as an error that is not of the type of
\* the not-found error.
C8_SearchFailureNotRetried ==
    \A i \in 1..Len(failures) : failures[i].stage = "query" =>
        /\ attempts = i
        /\ Len(sleeps) = i - 1
        /\ pc # "sleep"
        /\ execResult.status = "raised"
        /\ execResult.error.type # NotFoundError(sketch_id).type

ValidCall == tool = "advanced" \/ InputError(substrings, boolean_operator) = NoError

\* C10: in both search tools, once the input checks passed, an error of the
\* search (not-found after 3 attempts, or any other) is never raised to the
\* caller: the tool returns the one record {"result": "Error: <message>"};
\* on success it returns the records of the normalized table and no error
\* record.
C10_ErrorsBecomePayload ==
    (pc = "done" /\ ValidCall) =>
        /\ toolResult.status = "returned"
        /\ toolResult.error = NoError
        /\ execResult.status = "raised" =>
              /\ Len(toolResult.value) = 1
              /\ DOMAIN toolResult.value[1] = {"result"}
              /\ toolResult.value[1].result
                    = "Error: " \o failures[Len(failures)].msg
              /\ (AllNotFound => attempts = 3)
        /\ execResult.status = "returned" =>
              /\ toolResult.value = execResult.table.rows
              /\ \A i \in 1..Len(toolResult.value) :
                    "result" \notin DOMAIN toolResult.value[i]

C10_Witness ==
    /\ pc = "done"
    /\ tool = "substrings"
    /\ attempts = 3
    /\ AllNotFound
    /\ toolResult.status = "returned"
    /\ toolResult.value = << [result |-> "Error: Sketch with ID 7 not found."] >>

\* C5: search_timesketch_events_substrings with an empty substrings list or
\* an operator other than AND/OR builds no term and no query, never asks for
\* the client handle, never searches or sleeps, and ends by raising the
\* invalid-input error to the caller.
C5_InvalidInputRejectedFirst ==
    (tool = "substrings" /\ (substrings = <<>> \/ boolean_operator \notin {"AND", "OR"})) =>
        /\ terms = <<>>
        /\ query = <<>>
        /\ clientRequests = 0
        /\ attempts = 0
        /\ sleeps = <<>>
        /\ pc \in {"validate", "done"}
        /\ pc = "done" =>
              /\ toolResult.status = "raised"
              /\ toolResult.error.type = "ValueError"
              /\ toolResult.error.stage = "input"

C5_Witness ==
    /\ pc = "done"
    /\ substrings # <<>>
    /\ boolean_operator = "XOR"
    /\ toolResult.status = "raised"
    /\ toolResult.error.msg
          = "Invalid boolean operator: XOR. Must be one of 'AND' or 'OR'."

\* the non-empty input substrings, in input order
Kept == SelectSeq(substrings, LAMBDA x : x # <<>>)

\* the term the claim expects for one substring
ExpectedTerm(x) ==
    IF regex THEN <<"/", ".", "*">> \o x \o <<".", "*", "/">>
    ELSE <<"*">> \o EscapeReserved(x) \o <<"*">>

ExpectedSeparator ==
    IF boolean_operator = "AND" THEN <<" ", "A", "N", "D", " ">>
    ELSE <<" ", "O", "R", " ">>

\* the sum of the first n lengths
RECURSIVE SumLen(_, _)
SumLen(ts, n) == IF n = 0 THEN 0 ELSE SumLen(ts, n - 1) + Len(ts[n])

\* C6: for a valid call the query handed to the search is, for the k-th
\* non-empty substring in input order, its term (*<escaped>* or /.*<raw>.*/),
\* with the operator padded by one space on each side between consecutive
\* terms, and nothing else; empty substrings contribute nothing.
C6_QueryIsJoinedTerms ==
    (tool = "substrings" /\ pc \in {"search", "sleep", "after", "done"} /\ ValidCall) =>
        LET kept == Kept
            n == Len(kept)
            sep == ExpectedSeparator
            ts == [k \in 1..n |-> ExpectedTerm(kept[k])]
            \* where the k-th term starts in the query, counted from 0
            off == [k \in 1..n |-> SumLen(ts, k - 1) + (k - 1) * Len(sep)]
        IN  /\ Len(query) = IF n = 0 THEN 0 ELSE off[n] + Len(ts[n])
            /\ \A k \in 1..n :
                  /\ SubSeq(query, off[k] + 1, off[k] + Len(ts[k])) = ts[k]
                  /\ k > 1 => SubSeq(query, off[k] - Len(sep) + 1, off[k]) = sep

C6_Witness ==
    /\ pc = "done"
    /\ substrings = << <<"a">>, <<>>, <<"b">> >>
    /\ ~regex
    /\ boolean_operator = "AND"
    /\ query = <<"*", "a", "*", " ", "A", "N", "D", " ", "*", "b", "*">>

\* Reading an escaped string as the query grammar does: a backslash makes
\* the next character literal.  Gives, per character read, the character and
\* whether a backslash preceded it.
RECURSIVE Unescape(_)
Unescape(e) ==
    IF e = <<>> THEN <<>>
    ELSE IF e[1] = "\\" /\ Len(e) >= 2
         THEN <<[c |-> e[2], escaped |-> TRUE]>> \o Unescape(SubSeq(e, 3, Len(e)))
         ELSE <<[c |-> e[1], escaped |-> FALSE]>> \o Unescape(Tail(e))

ReservedSingles == {r[1] : r \in {x \in Range(RESERVED_CHARS) : Len(x) = 1}}
ReservedPairs == {x \in Range(RESERVED_CHARS) : Len(x) = 2}

\* e escapes x: read back it gives x, every reserved character of x was
\* preceded by a backslash of its own, and so was every first character of a
\* run of a two-character reserved token
EscapedOnce(e, x) ==
    LET u == Unescape(e)
    IN  /\ Len(u) = Len(x)
        /\ \A i \in 1..Len(x) :
              /\ u[i].c = x[i]
              /\ x[i] \in ReservedSingles => u[i].escaped
              /\ (/\ i < Len(x)
                  /\ <<x[i], x[i + 1]>> \in ReservedPairs
                  /\ (i = 1 \/ x[i - 1] # x[i])) => u[i].escaped

\* C2: with regex=false, every reserved character of every input substring
\* stands in the query behind exactly one backslash of its own, which is not
\* itself escaped.  (The k-th term lies in the query behind the k-1 terms and
\* separators before it, between its two asterisks.)
C2_ReservedEscapedOnce ==
    (tool = "substrings" /\ ~regex /\ ValidCall /\ pc \in {"search", "sleep", "after", "done"}) =>
        LET kept == Kept
            sep == ExpectedSeparator
            off == [k \in 1..Len(terms) |-> SumLen(terms, k - 1) + (k - 1) * Len(sep)]
        IN  /\ Len(terms) = Len(kept)
            /\ \A k \in 1..Len(terms) :
                  /\ Len(terms[k]) >= 2
                  /\ EscapedOnce(SubSeq(query, off[k] + 2, off[k] + Len(terms[k]) - 1),
                                 kept[k])


\* C7: a table returned by do_timesketch_search is the raw table itself when
\* that is empty; otherwise it has the raw table's columns and rows, no cell
\* is missing, every cell that was missing is "N/A", every datetime cell is a
\* string, and every other cell that was not missing is as it was.
C7_NormalizedTable ==
    execResult.status = "returned" =>
        LET raw == remote.table
            out == execResult.table
        IN  /\ raw.rows = <<>> => out = raw
            /\ out.columns = raw.columns
            /\ Len(out.rows) = Len(raw.rows)
            /\ \A i \in 1..Len(raw.rows) :
                  /\ DOMAIN out.rows[i] = DOMAIN raw.rows[i]
                  /\ \A c \in DOMAIN raw.rows[i] :
                        /\ ~IsNull(out.rows[i][c])
                        /\ IsNull(raw.rows[i][c]) => out.rows[i][c] = Str("N/A")
                        /\ c = "datetime" => out.rows[i][c].k = "str"
                        /\ (c # "datetime" /\ ~IsNull(raw.rows[i][c])) =>
                              out.rows[i][c] = raw.rows[i][c]

C7_Witness ==
    /\ execResult.status = "returned"
    /\ Len(remote.table.rows) = 2
    /\ \E i \in 1..2 :
          /\ HasColumn(remote.table, "sha256_hash")
          /\ HasColumn(remote.table, "yara_match")
          /\ IsNull(remote.table.rows[i]["message"])
          /\ IsNull(remote.table.rows[i]["sha256_hash"])
          /\ ~IsNull(remote.table.rows[i]["yara_match"])
          /\ execResult.table.rows[i]["message"] = Str("N/A")
          /\ execResult.table.rows[i]["datetime"] = Str("2025-04-02T00:00:00")


\* the counts the aggregation answered for a field
CountsOf(field) ==
    LET hit == SelectSeq(aggLog, LAMBDA x : x.field = field)
    IN  hit[1].counts

Returned(field) == \E i \in 1..Len(toolResult.value) : toolResult.value[i] = field

DiscoverReturned == tool = "discover" /\ pc = "done" /\ toolResult.status = "returned"

\* C3 as stated: a field seen in the events is returned if and only if its
\* greatest top-10 bucket count is less than 10 (no bucket counting as 0).
C3_ReturnedIffBelowTen ==
    DiscoverReturned =>
        \A k \in 1..Len(Keys) : Events # <<>> =>
            (Returned(Keys[k]) <=> \A i \in 1..Len(CountsOf(Keys[k])) : CountsOf(Keys[k])[i] < 10)

\* C3 as amended: a field seen in the events is returned if and only if one
\* of its top-10 buckets counts 10 or more; a field whose greatest count is
\* below 10 (or that has no bucket) is left out.  Each returned field is
\* returned once, and only seen fields are returned.
C3_ReturnedIffTenOrMore ==
    DiscoverReturned =>
        /\ \A k \in 1..Len(Keys) : Events # <<>> =>
              (Returned(Keys[k]) <=> \E i \in 1..Len(CountsOf(Keys[k])) : CountsOf(Keys[k])[i] >= 10)
        /\ \A i, j \in 1..Len(toolResult.value) :
              toolResult.value[i] = toolResult.value[j] => i = j
        /\ \A i \in 1..Len(toolResult.value) :
              Events # <<>> /\ toolResult.value[i] \in Range(Keys)

C3_Witness ==
    /\ DiscoverReturned
    /\ Len(Events) = 2
    /\ Keys = <<"datetime", "message", "yara_match">>
    /\ toolResult.value = <<"message">>
    /\ CountsOf("message") = <<10, 9>>
    /\ CountsOf("datetime") = <<9, 9>>
    /\ CountsOf("yara_match") = <<>>

\* C4: with calls one after the other, every call after a call that
\* constructed a handle finds it in the cache and returns that same handle,
\* so the body runs no more; a call whose construction fails stores nothing,
\* and the call after it runs the body again.
C4_SequentialMemo ==
    /\ \A i, j \in 1..Len(callLog) : (i < j /\ ~callLog[i].raised) =>
          /\ callLog[j].hit
          /\ callLog[j].handle = callLog[i].handle
    /\ \A i \in 1..Len(callLog) : callLog[i].raised =>
          /\ (\A j \in 1..i : callLog[j].raised) => (i = Len(callLog) => cache = NoHandle)
          /\ i < Len(callLog) => ~callLog[i + 1].hit
    /\ (\E i \in 1..Len(callLog) : ~callLog[i].raised) =>
          /\ cache # NoHandle
          /\ \E i \in 1..Len(callLog) :
                /\ ~callLog[i].raised
                /\ constructions = i
                /\ cache = callLog[i].handle

C4_Witness ==
    /\ Len(callLog) = 4
    /\ callLog[1].raised
    /\ ~callLog[2].raised /\ ~callLog[2].hit
    /\ callLog[3].hit /\ callLog[3].handle = callLog[2].handle
    /\ callLog[4].hit /\ callLog[4].handle = callLog[2].handle
    /\ callLog[2].handle.host_uri = "http://ts.example:5000/"
    /\ constructions = 2

\* C9: with calls running at the same time, a call that starts while a
\* handle is stored returns that handle and runs no construction; every call
\* that starts while none is stored runs the construction itself, whatever
\* the others do, and two such calls never return the same handle.
C9_OnlyLateCallsShare ==
    /\ \A i \in 1..Len(callLog) :
          /\ callLog[i].seen # NoHandle =>
                /\ callLog[i].hit
                /\ callLog[i].handle = callLog[i].seen
          /\ callLog[i].seen = NoHandle => ~callLog[i].hit
    /\ \A i, j \in 1..Len(callLog) :
          (/\ i # j
           /\ ~callLog[i].hit /\ ~callLog[i].raised
           /\ ~callLog[j].hit /\ ~callLog[j].raised) =>
              callLog[i].handle # callLog[j].handle
    /\ \A t \in Threads : tpc[t] = "constructing" => tseen[t] = NoHandle

\* two callers that both started before any handle was stored: construction
\* ran twice and they hold different handles; a later call got the stored one
C9_Witness ==
    /\ Len(callLog) = 3
    /\ callLog[1].thread # callLog[2].thread
    /\ callLog[1].seen = NoHandle /\ callLog[2].seen = NoHandle
    /\ ~callLog[1].raised /\ ~callLog[2].raised
    /\ callLog[1].handle # callLog[2].handle
    /\ constructions = 2
    /\ callLog[3].hit
    /\ callLog[3].handle = cache

====
